---- MODULE Spec2Model ----
(***************************************************************************)
(* A model of digit_incrementing.py: the locator getnum, the transformer   *)
(* increment_at_index and the shared decimal_context, as a state machine   *)
(* of an editor line on which increment / decrement calls are made.        *)
(*                                                                         *)
(* A text is a sequence of one-character strings.  Indices are 0-based,    *)
(* as in the source: At(s, i) is s[i], Slice(s, a, b) is s[a:b].           *)
(***************************************************************************)
EXTENDS Integers, Sequences, FiniteSets, TLC

Min(a, b) == IF a < b THEN a ELSE b
Max(a, b) == IF a < b THEN b ELSE a

\* s[i]; the empty string stands for "past the end" and is in no character class.
At(s, i) == IF i >= 0 /\ i < Len(s) THEN s[i + 1] ELSE ""

\* s[a:b] for a, b >= 0 (Python clips both to len(s)).
Slice(s, a, b) ==
    LET lo == Min(a, Len(s))
        hi == Min(b, Len(s))
    IN  IF hi <= lo THEN <<>> ELSE SubSeq(s, lo + 1, hi)

\* s.count(c)
Count(s, c) == Cardinality({i \in 1..Len(s) : s[i] = c})

\* s.find(c): the first index of c, -1 when absent
Find(s, c) ==
    IF \E i \in 1..Len(s) : s[i] = c
    THEN (CHOOSE i \in 1..Len(s) : s[i] = c /\ \A k \in 1..(i - 1) : s[k] # c) - 1
    ELSE -1

\* s.lstrip('+-')
LStripSigns(s) ==
    LET signs == {i \in 0..Len(s) : \A k \in 1..i : s[k] \in {"+", "-"}}
        n == CHOOSE i \in signs : \A k \in signs : k <= i
    IN  Slice(s, n, Len(s))

\* s.replace('_', '')
RemoveUnderscores(s) == SelectSeq(s, LAMBDA c : c # "_")

\* s.zfill(width)
ZFill(s, width) ==
    IF Len(s) >= width THEN s
    ELSE LET pad == [i \in 1..(width - Len(s)) |-> "0"]
         IN  IF At(s, 0) \in {"+", "-"}
             THEN <<s[1]>> \o pad \o Slice(s, 1, Len(s))
             ELSE pad \o s

UpperLetters ==
    <<"A", "B", "C", "D", "E", "F", "G", "H", "I", "J", "K", "L", "M",
      "N", "O", "P", "Q", "R", "S", "T", "U", "V", "W", "X", "Y", "Z">>
LowerLetters ==
    <<"a", "b", "c", "d", "e", "f", "g", "h", "i", "j", "k", "l", "m",
      "n", "o", "p", "q", "r", "s", "t", "u", "v", "w", "x", "y", "z">>
UpperSet == {UpperLetters[i] : i \in 1..26}
LowerSet == {LowerLetters[i] : i \in 1..26}
ToLower == [c \in UpperSet |-> LowerLetters[CHOOSE i \in 1..26 : UpperLetters[i] = c]]
ToUpper == [c \in LowerSet |-> UpperLetters[CHOOSE i \in 1..26 : LowerLetters[i] = c]]
LowerChar(c) == IF c \in UpperSet THEN ToLower[c] ELSE c
UpperChar(c) == IF c \in LowerSet THEN ToUpper[c] ELSE c
\* s.lower(), s.upper()
Lower(s) == [i \in 1..Len(s) |-> LowerChar(s[i])]
Upper(s) == [i \in 1..Len(s) |-> UpperChar(s[i])]

\* digits_by_base = {2: '01', 8: string.octdigits, 10: string.digits, 16: string.hexdigits}
BinDigits == {"0", "1"}
OctDigits == {"0", "1", "2", "3", "4", "5", "6", "7"}
DecDigits == OctDigits \cup {"8", "9"}
HexDigits == DecDigits \cup {"a", "b", "c", "d", "e", "f", "A", "B", "C", "D", "E", "F"}
digits_by_base(base) ==
    CASE base = 2 -> BinDigits
      [] base = 8 -> OctDigits
      [] base = 10 -> DecDigits
      [] base = 16 -> HexDigits

\* The digit characters by value, and the value of a digit character.
DigitChars == <<"0", "1", "2", "3", "4", "5", "6", "7", "8", "9", "a", "b", "c", "d", "e", "f">>
DigitValue == [c \in HexDigits |-> (CHOOSE v \in 1..16 : DigitChars[v] = LowerChar(c)) - 1]

\* The first alternative of a group that matches: a if it matched, else b.
FirstMatch(a, b) == IF a > 0 THEN a ELSE b

(***************************************************************************)
(* tokenize.generate_tokens on one line without a line break, for the      *)
(* characters the model uses: letters, digits, '_', '.', '+', '-', ' '.    *)
(* Each operator gives the length of the regular expression's match at     *)
(* position i (0: no match); the expressions are those of the tokenize     *)
(* module the source imports.                                              *)
(***************************************************************************)
RECURSIVE Rest(_, _, _)
\* (?:_?[D])*
Rest(s, i, D) ==
    IF At(s, i) \in D THEN 1 + Rest(s, i + 1, D)
    ELSE IF At(s, i) = "_" /\ At(s, i + 1) \in D THEN 2 + Rest(s, i + 2, D)
    ELSE 0

\* [D](?:_?[D])*
Run(s, i, D) == IF At(s, i) \in D THEN 1 + Rest(s, i + 1, D) ELSE 0

\* 0[xX] followed by a match of (?:_?[D])+ of length r
PrefixedBy(s, i, letters, r) ==
    IF At(s, i) = "0" /\ At(s, i + 1) \in letters /\ r > 0 THEN 2 + r ELSE 0

\* 0[xX](?:_?[0-9a-fA-F])+ and its binary and octal likes
Prefixed(s, i, letters, D) == PrefixedBy(s, i, letters, Rest(s, i + 2, D))

\* (?:0(?:_?0)*|[1-9](?:_?[0-9])*)
Decnumber(s, i) ==
    IF At(s, i) = "0" THEN 1 + Rest(s, i + 1, {"0"})
    ELSE IF At(s, i) \in DecDigits THEN 1 + Rest(s, i + 1, DecDigits)
    ELSE 0

\* Intnumber = group(Hexnumber, Binnumber, Octnumber, Decnumber)
Intnumber(s, i) ==
    FirstMatch(Prefixed(s, i, {"x", "X"}, HexDigits),
        FirstMatch(Prefixed(s, i, {"b", "B"}, BinDigits),
            FirstMatch(Prefixed(s, i, {"o", "O"}, OctDigits), Decnumber(s, i))))

\* [eE][-+]? followed by a match of [0-9](?:_?[0-9])* of length r, k characters on
ExponentBy(k, r) == IF r > 0 THEN k + r ELSE 0

\* [eE][-+]?[0-9](?:_?[0-9])*
Exponent(s, i) ==
    IF At(s, i) \notin {"e", "E"} THEN 0
    ELSE IF At(s, i + 1) \in {"-", "+"} THEN ExponentBy(2, Run(s, i + 2, DecDigits))
    ELSE ExponentBy(1, Run(s, i + 1, DecDigits))

\* a match of length body, then (Exponent)?
MaybeExponent(s, i, body) == IF body > 0 THEN body + Exponent(s, i + body) ELSE 0

\* [0-9](?:_?[0-9])*\.(?:[0-9](?:_?[0-9])*)?|\.[0-9](?:_?[0-9])* where r is the
\* length of the leading run of digits and t that of the run after a leading point
PointBody(s, i, r, t) ==
    IF r > 0 /\ At(s, i + r) = "." THEN r + 1 + Run(s, i + r + 1, DecDigits)
    ELSE IF At(s, i) = "." /\ t > 0 THEN 1 + t
    ELSE 0

\* Pointfloat = group(...) + maybe(Exponent)
Pointfloat(s, i) ==
    MaybeExponent(s, i, PointBody(s, i, Run(s, i, DecDigits), Run(s, i + 1, DecDigits)))

\* a run of digits of length r, then Exponent
ExpfloatBy(s, i, r) == IF r > 0 /\ Exponent(s, i + r) > 0 THEN r + Exponent(s, i + r) ELSE 0

\* Expfloat = [0-9](?:_?[0-9])* + Exponent
Expfloat(s, i) == ExpfloatBy(s, i, Run(s, i, DecDigits))

\* Floatnumber = group(Pointfloat, Expfloat)
Floatnumber(s, i) == FirstMatch(Pointfloat(s, i), Expfloat(s, i))

\* a match of length n, then [jJ]
Suffixed(s, i, n) == IF n > 0 /\ At(s, i + n) \in {"j", "J"} THEN n + 1 ELSE 0

\* Imagnumber = group([0-9](?:_?[0-9])*[jJ], Floatnumber + [jJ])
Imagnumber(s, i) ==
    FirstMatch(Suffixed(s, i, Run(s, i, DecDigits)), Suffixed(s, i, Floatnumber(s, i)))

\* Number = group(Imagnumber, Floatnumber, Intnumber)
Number(s, i) == FirstMatch(Imagnumber(s, i), FirstMatch(Floatnumber(s, i), Intnumber(s, i)))

\* \w
IsWordChar(c) == c \in UpperSet \cup LowerSet \cup DecDigits \cup {"_"}

RECURSIVE Name(_, _)
\* \w+
Name(s, i) == IF IsWordChar(At(s, i)) THEN 1 + Name(s, i + 1) ELSE 0

RECURSIVE SkipSpace(_, _)
\* [ \f\t]*
SkipSpace(s, i) == IF At(s, i) = " " THEN SkipSpace(s, i + 1) ELSE i

Token(type, start, end) == [type |-> type, start |-> start, end |-> end]

\* The token at pos when Number matches n characters there: a NUMBER, or an
\* operator ('...' before '.'), a NAME, or an ERRORTOKEN of one character.
TokenOf(s, pos, n) ==
    IF n > 0 THEN Token("NUMBER", pos, pos + n)
    ELSE IF At(s, pos) = "." /\ At(s, pos + 1) = "." /\ At(s, pos + 2) = "."
         THEN Token("OP", pos, pos + 3)
    ELSE IF At(s, pos) \in {".", "+", "-"} THEN Token("OP", pos, pos + 1)
    ELSE IF IsWordChar(At(s, pos)) THEN Token("NAME", pos, pos + Name(s, pos))
    ELSE Token("ERRORTOKEN", pos, pos + 1)

\* The token the pseudo-token expression yields at pos (after white space).
NextToken(s, pos) == TokenOf(s, pos, Number(s, pos))

NoToken == Token("NONE", 0, 0)

RECURSIVE TokenAt(_, _, _)
\* "if start <= index < end" for tok, else on to the next token; the tokens
\* are in order, so one that ends after index and does not hold it ends the search.
Covering(s, tok, index) ==
    IF tok.start <= index /\ index < tok.end THEN tok
    ELSE IF index < tok.end THEN NoToken
    ELSE TokenAt(s, tok.end, index)

\* The tokens from p on, p after the white space.
TokenFrom(s, p, index) ==
    IF p >= Len(s) THEN NoToken ELSE Covering(s, NextToken(s, p), index)

\* The loop "for tok in generate_tokens(...)" from pos up to the first token
\* with start <= index < end; NoToken when the tokens end before one is found.
TokenAt(s, pos, index) == TokenFrom(s, SkipSpace(s, pos), index)

(***************************************************************************)
(* Arbitrary-precision numbers: a magnitude is a sequence of digit values, *)
(* most significant first, in base B; the arithmetic is the exact          *)
(* schoolbook arithmetic that Python's int and decimal.Decimal provide.    *)
(***************************************************************************)
Zeros(n) == [i \in 1..n |-> 0]

\* int(...): no leading zeros, at least one digit
StripZeros(d) ==
    IF \A i \in 1..Len(d) : d[i] = 0 THEN <<0>>
    ELSE SubSeq(d, CHOOSE i \in 1..Len(d) : d[i] # 0 /\ \A k \in 1..(i - 1) : d[k] = 0, Len(d))

PadTo(d, n) == Zeros(n - Len(d)) \o d

IsZero(d) == \A i \in 1..Len(d) : d[i] = 0

\* x + y for magnitudes of the same length n
AddAligned(x, y, n, B) ==
    LET c[i \in 1..(n + 1)] == IF i = n + 1 THEN 0 ELSE (x[i] + y[i] + c[i + 1]) \div B
    IN  <<c[1]>> \o [i \in 1..n |-> (x[i] + y[i] + c[i + 1]) % B]

\* a + b
AddMag(a, b, B) ==
    StripZeros(AddAligned(PadTo(a, Max(Len(a), Len(b))), PadTo(b, Max(Len(a), Len(b))),
                          Max(Len(a), Len(b)), B))

\* x < y for magnitudes of the same length
LessAligned(x, y) == \E i \in 1..Len(x) : x[i] < y[i] /\ \A k \in 1..(i - 1) : x[k] = y[k]

\* a < b
LessMag(a, b) == LessAligned(PadTo(a, Max(Len(a), Len(b))), PadTo(b, Max(Len(a), Len(b))))

\* x - y for magnitudes of the same length n, x >= y
SubAligned(x, y, n, B) ==
    LET w[i \in 1..(n + 1)] == IF i = n + 1 THEN 0
                               ELSE IF x[i] - y[i] - w[i + 1] < 0 THEN 1 ELSE 0
    IN  [i \in 1..n |-> (x[i] - y[i] - w[i + 1] + B) % B]

\* a - b, for a >= b
SubMag(a, b, B) ==
    StripZeros(SubAligned(PadTo(a, Max(Len(a), Len(b))), PadTo(b, Max(Len(a), Len(b))),
                          Max(Len(a), Len(b)), B))

Signed(sign, digits) == [sign |-> sign, digits |-> digits]

\* The sum of two signed numbers (sign 1: negative); a zero sum is positive.
SignedAdd(sa, a, sb, b, B) ==
    IF sa = sb THEN Signed(IF IsZero(a) /\ IsZero(b) THEN 0 ELSE sa, AddMag(a, b, B))
    ELSE IF LessMag(a, b) THEN Signed(sb, SubMag(b, a, B))
    ELSE IF LessMag(b, a) THEN Signed(sa, SubMag(a, b, B))
    ELSE Signed(0, <<0>>)

\* The digit values of a run of digit characters.
DigitValues(t) == [i \in 1..Len(t) |-> DigitValue[t[i]]]
\* The lower-case digit characters of a magnitude.
DigitText(d) == [i \in 1..Len(d) |-> DigitChars[d[i] + 1]]

RECURSIVE NatDigits(_)
\* The decimal digit values of a natural number.
NatDigits(n) == IF n < 10 THEN <<n>> ELSE NatDigits(n \div 10) \o <<n % 10>>

(***************************************************************************)
(* decimal.Decimal: [sign, digits, exp] is (-1)^sign * digits * 10^exp.    *)
(***************************************************************************)
Dec(sign, digits, exp) == [sign |-> sign, digits |-> digits, exp |-> exp]

\* t without a leading sign
Unsigned(t) == IF At(t, 0) \in {"+", "-"} THEN Slice(t, 1, Len(t)) ELSE t

\* \d+(\.\d*)?|\.\d+
PlainNumber(u) ==
    /\ \A i \in 1..Len(u) : u[i] \in DecDigits \cup {"."}
    /\ Count(u, ".") <= 1
    /\ \E i \in 1..Len(u) : u[i] \in DecDigits

\* The texts Decimal(...) accepts among those without an exponent part:
\* [-+]?(\d+(\.\d*)?|\.\d+) once the underscores are removed.
DecimalSyntax(expr) == PlainNumber(Unsigned(RemoveUnderscores(expr)))

\* The number of characters after the point of u
FractionDigits(u) == IF Find(u, ".") = -1 THEN 0 ELSE Len(u) - Find(u, ".") - 1

\* Decimal of the unsigned text u with the given sign
ParseUnsigned(sign, u) ==
    Dec(sign, StripZeros(DigitValues(SelectSeq(u, LAMBDA c : c # "."))), -FractionDigits(u))

\* Decimal(expr), exact
ParseDecimal(expr) ==
    ParseUnsigned(IF At(expr, 0) = "-" THEN 1 ELSE 0, Unsigned(RemoveUnderscores(expr)))

\* v rounded to its first prec digits, up when up holds; r is the rounded
\* magnitude, dropped the number of digits rounded away
Rounded(v, prec, r, dropped) ==
    IF Len(r) > prec
    THEN Dec(v.sign, SubSeq(r, 1, prec), v.exp + dropped + 1)
    ELSE Dec(v.sign, r, v.exp + dropped)

\* Whether rounding d half-to-even to prec digits rounds up
RoundsUp(d, prec) ==
    \/ d[prec + 1] > 5
    \/ /\ d[prec + 1] = 5
       /\ \/ \E i \in (prec + 2)..Len(d) : d[i] # 0
          \/ d[prec] % 2 = 1

\* Context._fix: round to prec significant digits, half to even
Fix(v, prec) ==
    IF Len(v.digits) <= prec THEN v
    ELSE Rounded(v, prec,
                 IF RoundsUp(v.digits, prec)
                 THEN AddMag(SubSeq(v.digits, 1, prec), <<1>>, 10)
                 ELSE SubSeq(v.digits, 1, prec),
                 Len(v.digits) - prec)

\* Decimal(10) ** exponent under precision prec
Pow10(exponent, prec) ==
    IF exponent < 0 THEN Dec(0, <<1>>, exponent)
    ELSE Fix(Dec(0, <<1>> \o Zeros(Min(exponent, prec)), exponent - Min(exponent, prec)), prec)

\* The exact sum of a and b, with exponent e = min(a.exp, b.exp)
ExactSum(s, e) == Dec(s.sign, s.digits, e)
ExactAdd(a, b) ==
    ExactSum(SignedAdd(a.sign, a.digits \o Zeros(a.exp - Min(a.exp, b.exp)),
                       b.sign, b.digits \o Zeros(b.exp - Min(a.exp, b.exp)), 10),
             Min(a.exp, b.exp))

\* a + b under precision prec
DecimalAdd(a, b, prec) == Fix(ExactAdd(a, b), prec)

\* increment * v
Times(increment, v) == IF increment = -1 THEN Dec(1 - v.sign, v.digits, v.exp) ELSE v

\* 'E%+d' % e, empty for e = 0
ExpText(e) ==
    IF e = 0 THEN <<>>
    ELSE IF e < 0 THEN <<"E", "-">> \o DigitText(NatDigits(-e))
    ELSE <<"E", "+">> \o DigitText(NatDigits(e))

\* The digits int with the point after the first dotplace of them
Pointed(int, dotplace) ==
    IF dotplace <= 0 THEN <<"0", ".">> \o [i \in 1..(-dotplace) |-> "0"] \o int
    ELSE IF dotplace >= Len(int) THEN int \o [i \in 1..(dotplace - Len(int)) |-> "0"]
    ELSE SubSeq(int, 1, dotplace) \o <<".">> \o SubSeq(int, dotplace + 1, Len(int))

\* The place of the point: plain notation when exp <= 0 and leftdigits > -6,
\* scientific notation (one digit before the point) otherwise
Dotplace(exp, leftdigits) == IF exp <= 0 /\ leftdigits > -6 THEN leftdigits ELSE 1

\* str(v)
DecimalStr(v) ==
    (IF v.sign = 1 THEN <<"-">> ELSE <<>>)
    \o Pointed(DigitText(v.digits), Dotplace(v.exp, v.exp + Len(v.digits)))
    \o ExpText(v.exp + Len(v.digits) - Dotplace(v.exp, v.exp + Len(v.digits)))

\* v < 0
Negative(v) == v.sign = 1 /\ ~IsZero(v.digits)

(***************************************************************************)
(* Python's int: [sign, digits] in the literal's base.                     *)
(***************************************************************************)
\* The int of a sign and the digits after the prefix; -0 is 0.
IntOf(neg, d) == Signed(IF neg /\ ~IsZero(d) THEN 1 ELSE 0, d)

\* ast.literal_eval(expr) for an optional '-', a two-character prefix and digits
literal_eval(expr) ==
    IntOf(At(expr, 0) = "-",
          StripZeros(DigitValues(RemoveUnderscores(
              Slice(expr, IF At(expr, 0) = "-" THEN 3 ELSE 2, Len(expr))))))

\* base ** exponent
Power(exponent) == <<1>> \o Zeros(exponent)

\* bin(value), oct(value), hex(value)
IntText(value, letter) ==
    (IF value.sign = 1 THEN <<"-">> ELSE <<>>) \o <<"0", letter>> \o DigitText(value.digits)

(***************************************************************************)
(* getnum                                                                  *)
(***************************************************************************)
\* 'ab' in s, for a two-character text
HasPair(s, a, b) == \E i \in 1..(Len(s) - 1) : s[i] = a /\ s[i + 1] = b

\* The base sniffed from the lower-cased token text.
BaseOfLower(low) ==
    IF HasPair(low, "0", "x") THEN 16
    ELSE IF HasPair(low, "0", "o") THEN 8
    ELSE IF HasPair(low, "0", "b") THEN 2
    ELSE 10
BaseOf(expr) == BaseOfLower(Lower(expr))

Span(start, end) == [start |-> start, end |-> end]

\* The sub-span of a base-10 token whose exponent marker is at pos of the token
\* (-1: none): the exponent if pos < index, the significand otherwise.
SplitAt(pos, start, end, index) ==
    IF pos = -1 THEN Span(start, end)
    ELSE IF pos < index THEN Span(start + pos + 1, end)
    ELSE Span(start, start + pos)

SplitAtExponent(expr, start, end, index) == SplitAt(Find(Lower(expr), "e"), start, end, index)

\* NotADigit without the test for the 0 of the prefix.
NotADigitAnyZero(src, index, start, base) == At(src, index) \notin digits_by_base(base)

\* "Must be an actual digit at index, not a decimal point, underscore, or the 0
\* in the prefix of hex/binary/octal literals"
NotADigit(src, index, start, base) ==
    \/ At(src, index) \notin digits_by_base(base)
    \/ (base # 10 /\ index = start)

\* "If a negative sign immediately precedes the literal, it will be included"
IncludeMinus(src, start) ==
    IF start # 0 /\ At(src, start - 1) = "-" THEN start - 1 ELSE start

Located(start, end, base) == [located |-> TRUE, start |-> start, end |-> end, base |-> base]
NoneFound == [located |-> FALSE, start |-> 0, end |-> 0, base |-> 0]

\* The return for a NUMBER token of the given base and sub-span.
NumberSpan(src, index, span, base) ==
    IF NotADigit(src, index, span.start, base) THEN NoneFound
    ELSE Located(IncludeMinus(src, span.start), span.end, base)

\* The base and sub-span of a NUMBER token.
NumberToken(src, index, tok, expr, base) ==
    NumberSpan(src, index,
               IF base = 10 THEN SplitAtExponent(expr, tok.start, tok.end, index)
               ELSE Span(tok.start, tok.end),
               base)

True == <<"T", "r", "u", "e">>
False == <<"F", "a", "l", "s", "e">>

\* The return for the token that holds index; base 0 stands for None (a bool).
SpanOfToken(src, index, tok, expr) ==
    IF tok.type = "NUMBER" THEN NumberToken(src, index, tok, expr, BaseOf(expr))
    ELSE IF tok.type = "NAME" /\ expr \in {True, False} THEN Located(tok.start, tok.end, 0)
    ELSE NoneFound

TextOfToken(src, index, tok) == SpanOfToken(src, index, tok, Slice(src, tok.start, tok.end))

\* getnum(src, index) for index < len(src)
getnum(src, index) == TextOfToken(src, index, TokenAt(src, 0, index))

(***************************************************************************)
(* increment_at_index                                                      *)
(***************************************************************************)
\* The index of the point of expr in src: "if decimalpoint == start - 1:
\* decimalpoint = end"
DecimalPoint(found, start, end) == IF found = start - 1 THEN end ELSE found

\* The power of ten of the digit at index, the point being at decimalpoint.
WeightFrom(expr, decimalpoint, index) ==
    IF decimalpoint > index
    THEN decimalpoint - index - Count(Slice(expr, index, decimalpoint), "_") - 1
    ELSE decimalpoint - index + Count(Slice(expr, decimalpoint, index), "_")

\* The power of ten of the digit at index of a base-10 sub-span.
DecimalWeight(expr, start, end, index) ==
    WeightFrom(expr, DecimalPoint(start + Find(expr, "."), start, end), index)

\* RaisePrecision that sets the precision for every literal.
RaisePrecisionAlways(expr, prec) == Len(expr) + 5

\* decimal_context.prec after "if len(expr) > decimal_context.prec: ..."
RaisePrecision(expr, prec) == IF Len(expr) > prec THEN Len(expr) + 5 ELSE prec

\* value = Decimal(expr) + increment * Decimal(10) ** exponent
DecimalValue(expr, exponent, increment, prec) ==
    DecimalAdd(ParseDecimal(expr), Times(increment, Pow10(exponent, prec)), prec)

\* result.lstrip('+-').zfill(len(digits_only)), with '-' again if value < 0
ZeroPadded(value, result, width) ==
    IF Negative(value) THEN <<"-">> \o ZFill(LStripSigns(result), width)
    ELSE ZFill(LStripSigns(result), width)

\* "If it has leading zeros, let's pad our result out to the same length"
PadLeadingZeros(digits_only, value, result) ==
    IF At(digits_only, 0) = "0" THEN ZeroPadded(value, result, Len(digits_only)) ELSE result

\* "Preserve redundant + signs in floating point exponents"
KeepPlus(expr, result) ==
    IF At(expr, 0) = "+" /\ At(result, 0) # "-" THEN <<"+">> \o result ELSE result

\* The raw result for the value computed.
DecimalText(expr, value) ==
    KeepPlus(expr, PadLeadingZeros(RemoveUnderscores(LStripSigns(expr)), value, DecimalStr(value)))

\* The raw result of the base-10 branch.
DecimalResult(expr, exponent, increment, prec) ==
    DecimalText(expr, DecimalValue(expr, exponent, increment, prec))

\* The power of the base of the digit at index of a binary, octal or hex literal.
IntegerWeight(expr, end, index) == end - index - Count(Slice(expr, index, Len(expr)), "_") - 1

\* v + increment * base ** exponent
Bumped(v, base, exponent, increment) ==
    SignedAdd(v.sign, v.digits, IF increment = -1 THEN 1 ELSE 0, Power(exponent), base)

\* value = ast.literal_eval(expr); value += increment * base ** exponent
IntegerValue(expr, base, exponent, increment) ==
    Bumped(literal_eval(expr), base, exponent, increment)

\* t[2:]
From2(t) == Slice(t, 2, Len(t))

\* "If the string has any lower case hex then we will output lower case hex"
HexCase(rest, tail) == IF \E i \in 1..Len(rest) : rest[i] \in LowerSet THEN Lower(tail) ELSE Upper(tail)

\* expr[:2] + bin(value)[2:], and its octal and hex likes
IntegerText(expr, base, value) ==
    CASE base = 2 -> Slice(expr, 0, 2) \o From2(IntText(value, "b"))
      [] base = 8 -> Slice(expr, 0, 2) \o From2(IntText(value, "o"))
      [] base = 16 -> Slice(expr, 0, 2) \o HexCase(From2(expr), From2(IntText(value, "x")))
      [] OTHER -> (IF value.sign = 1 THEN <<"-">> ELSE <<>>) \o DigitText(value.digits)

\* The raw result of the binary, octal and hex branch.
IntegerResult(expr, base, end, index, increment) ==
    IntegerText(expr, base, IntegerValue(expr, base, IntegerWeight(expr, end, index), increment))

\* "How much of the resulting expression is actual digits, vs base prefixes and sign?"
PrefixLength(result, base) ==
    (IF At(result, 0) \in {"+", "-"} THEN 1 ELSE 0) + (IF base \in {2, 8, 16} THEN 2 ELSE 0)

\* list.insert(k, c), at the place at
InsertAt(arr, at, c) == Slice(arr, 0, at) \o <<c>> \o Slice(arr, at, Len(arr))
Insert(arr, k, c) ==
    InsertAt(arr, IF k < 0 THEN Max(k + Len(arr), 0) ELSE Min(k, Len(arr)), c)

RECURSIVE Reinsert(_, _, _, _)
\* "Re-insert underscores from right-to-left": underscores[1..n] are the
\* positions of the underscores of expr measured from its end.
Reinsert(arr, underscores, n, prefix) ==
    IF n = 0 THEN arr
    ELSE Reinsert(IF underscores[n] + Len(arr) + 1 > prefix
                  THEN Insert(arr, underscores[n] + 1, "_")
                  ELSE arr,
                  underscores, n - 1, prefix)

\* The k-th element of a set of numbers, in increasing order
Nth(at, k) == CHOOSE i \in at : Cardinality({j \in at : j < i}) = k - 1

\* underscores = [i - len(expr) for i, s in enumerate(expr) if s == '_']
Underscores(expr) ==
    [k \in 1..Count(expr, "_") |-> Nth({i \in 1..Len(expr) : expr[i] = "_"}, k) - 1 - Len(expr)]

\* The result with the underscores of expr put back.
WithUnderscores(expr, result, prefix) ==
    Reinsert(result, Underscores(expr), Count(expr, "_"), prefix)

\* Clamp that lets the cursor rest on the last prefix character.
ClampOneShort(offset, index, start, prefix) ==
    IF index + offset - start < prefix - 1 THEN start - index + prefix ELSE offset

\* "if index + offset - start < prefix: offset = start - index + prefix"
Clamp(offset, index, start, prefix) ==
    IF index + offset - start < prefix THEN start - index + prefix ELSE offset

\* offset = len(result) - len(expr), clamped to the first digit
CursorOffset(result, expr, index, start, prefix) ==
    Clamp(Len(result) - Len(expr), index, start, prefix)

\* What a call does: it returns (line, offset) or raises; prec is the precision
\* it leaves, g what getnum returned to it.
Returned(line, offset, prec, g) ==
    [raised |-> FALSE, line |-> line, offset |-> offset, prec |-> prec, g |-> g]
Raised(line, prec, g) ==
    [raised |-> TRUE, line |-> line, offset |-> 0, prec |-> prec, g |-> g]

\* return src[:start] + result + src[end:], offset
Rewritten(src, index, g, expr, result, prefix, prec) ==
    Returned(Slice(src, 0, g.start) \o result \o Slice(src, g.end, Len(src)),
             CursorOffset(result, expr, index, g.start, prefix), prec, g)

\* From the raw result on: the prefix length, the underscores, the offset.
Reformat(src, index, g, expr, raw, prefix, prec) ==
    Rewritten(src, index, g, expr, WithUnderscores(expr, raw, prefix), prefix, prec)

Finish(src, index, g, expr, raw, prec) ==
    Reformat(src, index, g, expr, raw, PrefixLength(raw, g.base), prec)

\* The base-10 branch under the precision newprec; Decimal(expr) raises on a
\* text that is no decimal number.
DecimalBranch(src, index, increment, g, expr, newprec) ==
    IF DecimalSyntax(expr)
    THEN Finish(src, index, g, expr,
                DecimalResult(expr, DecimalWeight(expr, g.start, g.end, index), increment, newprec),
                newprec)
    ELSE Raised(src, newprec, g)

\* The branches of increment_at_index for the literal expr located by g.
Transform(src, index, increment, g, expr, prec) ==
    IF g.base = 10
    THEN DecimalBranch(src, index, increment, g, expr, RaisePrecision(expr, prec))
    ELSE IF expr = True THEN Finish(src, index, g, expr, False, prec)
    ELSE IF expr = False THEN Finish(src, index, g, expr, True, prec)
    ELSE Finish(src, index, g, expr, IntegerResult(expr, g.base, g.end, index, increment), prec)

\* After "start, end, base = getnum(src, index)"
AfterGetnum(src, index, increment, g, prec) ==
    IF ~g.located THEN Returned(src, 0, prec, g)
    ELSE Transform(src, index, increment, g, Slice(src, g.start, g.end), prec)

\* increment_at_index(src, index, increment) with decimal_context.prec = prec;
\* getnum's "assert index < len(src)" raises.
increment_at_index(src, index, increment, prec) ==
    IF src = <<>> THEN Returned(src, 0, prec, NoneFound)
    ELSE IF index >= Len(src) THEN Raised(src, prec, NoneFound)
    ELSE AfterGetnum(src, index, increment, getnum(src, index), prec)

(***************************************************************************)
(* The state machine: an editor line src with the cursor at index, the     *)
(* precision of the shared decimal_context, and the calls made so far.     *)
(* A call edits the line in place and moves the cursor by the offset.      *)
(***************************************************************************)
VARIABLES src, index, prec, calls
vars == <<src, index, prec, calls>>

\* decimal_context = Context(): the default precision
InitPrec == 28

\* Bounds of the model.
MaxLen == 3
MaxCalls == 2
MaxFraction == 7
MaxExtra == 1

\* The characters of the exhaustively enumerated lines.
Alphabet == {"0", "1", "9", ".", "_", "e", "x", "j", "-"}

\* Every line of at most n characters of the alphabet.
Texts(n) == UNION {[1..k -> Alphabet] : k \in 0..n}

\* The lines of test_cases.
TestLines ==
    {<<"a">>, <<"1">>, <<"9">>, <<"3", "0">>, <<"a", "0">>, <<"0">>, <<"-", "1">>,
     <<"-", "1", "0">>, <<"1", "_", "0">>, <<"1", ".", "0">>, <<"1", "_", "9">>, <<"1", "0">>,
     <<"1", "0", "0", "0", "0">>, <<"a", "1", "0">>, <<"0", "x", "a">>, <<"0", "x", "A">>,
     <<"0", "x", "f", "f", "f">>, <<"0", "b", "1", "0", "1", "1">>, <<"1", ".", "4", "e", "6">>,
     <<"1", ".", "4", "e", "0">>, <<"1", ".", "4", "e", "-", "1", "0">>, <<"0", ".", "0", "1">>,
     <<"-", "0", ".", "0", "1">>, <<"1", "e", "+", "5">>, <<"1", "E", "5">>,
     <<"1", "E", "+", "0">>, <<"1", "_", "0", "E", "1", "_", "0">>,
     <<"0", "X", "a", "b", "c", "d">>, <<"0", "x", "a", "b", "c", "d">>,
     <<"0", "x", "a", "b", "_", "c", "d">>, <<"-", "1", "1", ".", "0">>,
     <<"0", "x", "1", "0", "1", "0", "0">>, <<"1", " ", "+", " ", "1", ".", "0">>,
     <<"1", " ", "+", " ", "1">>, <<"1", ".", "0", "0", "1">>,
     <<"1", " ", "+", " ", "T", "r", "u", "e">>,
     <<"1", " ", "+", " ", "F", "a", "l", "s", "e">>, <<"-", "0", "e", "2">>,
     <<"-", "1", ".", "1", "e", "2">>, <<"1", "e", "0", "0">>,
     <<"1", "e", "+", "0", "_", "0", "_", "1">>, <<"1", ".", "9", "9", "_", "8", "8">>}

\* 0.1, 0.01, ... : a one after up to MaxFraction - 1 fractional zeros.
FractionLines == {<<"0", ".">> \o [i \in 1..k |-> IF i = k THEN "1" ELSE "0"] : k \in 1..MaxFraction}

\* Runs of nines around the default precision.
LongLines == {[i \in 1..n |-> "9"] : n \in (InitPrec - 1)..(InitPrec + MaxExtra)}

Indices(line) == IF line = <<>> THEN {0} ELSE 0..(Len(line) - 1)

\* The record of one call: its arguments, the precision before and after,
\* what getnum located, and what was returned.
CallRecord(s, i, increment, p, r) ==
    [src |-> s, index |-> i, increment |-> increment, prec0 |-> p, g |-> r.g,
     raised |-> r.raised, line |-> r.line, offset |-> r.offset, prec1 |-> r.prec]

\* The caller replaces the line and moves the cursor by the offset.
Apply(increment, r) ==
    /\ src' = r.line
    /\ index' = index + r.offset
    /\ prec' = r.prec
    /\ calls' = Append(calls, CallRecord(src, index, increment, prec, r))

\* One call of increment_at_index on the editor line.
Call(increment) ==
    /\ Len(calls) < MaxCalls
    /\ Apply(increment, increment_at_index(src, index, increment, prec))

Increment == Call(1)
Decrement == Call(-1)

\* The caller turns to another line, the cursor on its first or last character
\* (the precision is the process's, and stays).
SetLine ==
    /\ Len(calls) < MaxCalls
    /\ \E line \in LongLines \cup FractionLines :
         \E i \in (IF line \in LongLines THEN {0} ELSE {}) \cup {Len(line) - 1} :
            /\ src' = line
            /\ index' = i
    /\ UNCHANGED <<prec, calls>>

InitOn(lines) ==
    /\ src \in lines
    /\ index \in Indices(src)
    /\ prec = InitPrec
    /\ calls = <<>>

Init == InitOn(Texts(MaxLen) \cup TestLines)
Next == Increment \/ Decrement
Spec == Init /\ [][Next]_vars

\* A process that edits several lines in turn, long literals among them.
InitSession == InitOn({<<>>})
NextSession == Increment \/ Decrement \/ SetLine
SpecSession == InitSession /\ [][NextSession]_vars

(***************************************************************************)
(* The claims.  Each is stated over the calls made so far.                 *)
(***************************************************************************)
Called == {calls[k] : k \in 1..Len(calls)}

\* The old and the new text of the literal a call located.
OldLiteral(c) == Slice(c.src, c.g.start, c.g.end)
NewLiteral(c) == Slice(c.line, c.g.start, c.g.end + Len(c.line) - Len(c.src))

\* A line that is one numeric literal, with or without a '-' before it.
SignLength(s) == IF At(s, 0) = "-" THEN 1 ELSE 0
WholeLiteral(s) == Number(s, SignLength(s)) > 0 /\ Number(s, SignLength(s)) = Len(s) - SignLength(s)

\* The base a numeric token shows by its second character.
TokenBase(s, tok) ==
    LET letter == IF tok.end - tok.start >= 2 /\ At(s, tok.start) = "0"
                  THEN LowerChar(At(s, tok.start + 1))
                  ELSE ""
    IN  CASE letter = "x" -> 16 [] letter = "o" -> 8 [] letter = "b" -> 2 [] OTHER -> 10

\* The character at i is no digit of a numeric literal in the literal's base
\* (outside any literal, or a point, an underscore, an exponent marker, a sign,
\* a suffix, a character of the base prefix) and is not inside True or False.
NotLiteralDigit(s, i) ==
    LET tok == TokenAt(s, 0, i)
    IN  IF tok.type = "NUMBER"
        THEN \/ At(s, i) \notin digits_by_base(TokenBase(s, tok))
             \/ (TokenBase(s, tok) # 10 /\ i < tok.start + 2)
        ELSE ~(tok.type = "NAME" /\ Slice(s, tok.start, tok.end) \in {True, False})

\* C1: a call whose index is on no digit of a numeric literal and inside no
\* True or False returns the line unchanged with offset 0, in both directions;
\* so does a call on the empty line.
C1_NoOp ==
    \A c \in Called :
        (c.src = <<>> \/ (c.index < Len(c.src) /\ NotLiteralDigit(c.src, c.index)))
            => (~c.raised /\ c.line = c.src /\ c.offset = 0)

\* C1's case: a call with the index on the 0 of a hexadecimal prefix, digits
\* after the prefix, returned the line as it was.
C1_Witness ==
    \E c \in Called :
        /\ c.index < Len(c.src)
        /\ TokenAt(c.src, 0, c.index).type = "NUMBER"
        /\ TokenBase(c.src, TokenAt(c.src, 0, c.index)) = 16
        /\ c.index = TokenAt(c.src, 0, c.index).start
        /\ At(c.src, c.index) = "0"
        /\ c.line = c.src /\ c.offset = 0

\* The sign and base-prefix characters at the start of the new literal.
NewPrefix(c) ==
    (IF At(NewLiteral(c), 0) \in {"+", "-"} THEN 1 ELSE 0) + (IF c.g.base \in {2, 8, 16} THEN 2 ELSE 0)

\* C3: for a call that locates a literal, index + offset >= start + prefix; the
\* offset is the change of the literal's length when that satisfies the bound,
\* and start - index + prefix otherwise.
C3_CursorClamp ==
    \A c \in Called :
        (c.g.located /\ ~c.raised) =>
            LET delta == Len(c.line) - Len(c.src)
            IN  /\ c.index + c.offset >= c.g.start + NewPrefix(c)
                /\ IF c.index + delta >= c.g.start + NewPrefix(c)
                   THEN c.offset = delta
                   ELSE c.offset = c.g.start - c.index + NewPrefix(c)

\* C3's case: a literal with a sign or a prefix that shrinks by more than one
\* character, the offset clamped.
C3_Witness ==
    \E c \in Called :
        /\ c.g.located /\ ~c.raised
        /\ NewPrefix(c) > 0
        /\ Len(c.line) - Len(c.src) <= -2
        /\ c.offset # Len(c.line) - Len(c.src)
        /\ c.index + c.offset = c.g.start + NewPrefix(c)

\* C9: the precision of decimal_context never decreases over the calls; a call
\* that locates no base-10 literal leaves it unchanged, and after a call on a
\* base-10 literal of length L it is at least L.
C9_PrecisionMonotone ==
    /\ prec = IF calls = <<>> THEN InitPrec ELSE calls[Len(calls)].prec1
    /\ \A k \in 1..Len(calls) :
          /\ calls[k].prec0 = IF k = 1 THEN InitPrec ELSE calls[k - 1].prec1
          /\ calls[k].prec1 >= calls[k].prec0
          /\ ~(calls[k].g.located /\ calls[k].g.base = 10) => calls[k].prec1 = calls[k].prec0
          /\ (calls[k].g.located /\ calls[k].g.base = 10) =>
                calls[k].prec1 >= Len(OldLiteral(calls[k]))

\* C9's case: a call on a short literal after a call that raised the precision.
C9_Witness ==
    \E k \in 2..Len(calls) :
        /\ calls[k - 1].prec1 > calls[k - 1].prec0
        /\ calls[k].g.located /\ calls[k].g.base = 10
        /\ Len(OldLiteral(calls[k])) < InitPrec
        /\ calls[k].prec1 = calls[k - 1].prec1

\* Texts that may precede a literal: each ends in a space.
PrecedingTexts == {<<" ">>, <<"a", " ">>, <<"1", " ", "+", " ">>}

\* C2: preceding text does not matter: a call on p + s at len(p) + i returns
\* (p + s2, off), where (s2, off) is what the call on the literal s at i
\* returns, for every preceding text p that ends in a space.
C2_PrecedingText ==
    \A c \in Called :
        (WholeLiteral(c.src) /\ c.index < Len(c.src)) =>
            \A p \in PrecedingTexts :
                LET r == increment_at_index(p \o c.src, Len(p) + c.index, c.increment, c.prec0)
                IN  /\ r.raised = c.raised
                    /\ r.line = p \o c.line
                    /\ r.offset = c.offset

\* The value of a sequence of decimal digit values.
RECURSIVE NatOf(_)
NatOf(d) == IF d = <<>> THEN 0 ELSE 10 * NatOf(SubSeq(d, 1, Len(d) - 1)) + d[Len(d)]

\* The value of the text of an exponent.
ExponentValue(t) ==
    (IF At(t, 0) = "-" THEN -1 ELSE 1) * NatOf(DigitValues(RemoveUnderscores(Unsigned(t))))

\* v without the trailing zeros of its digits; zero is positive, exponent 0.
Canonical(v, zeros) ==
    IF IsZero(v.digits) THEN Dec(0, <<0>>, 0)
    ELSE Dec(v.sign, SubSeq(v.digits, 1, Len(v.digits) - zeros), v.exp + zeros)
Normal(v) ==
    Canonical(v, Cardinality({n \in 1..Len(v.digits) :
                                \A i \in (Len(v.digits) - n + 1)..Len(v.digits) : v.digits[i] = 0}))

\* A line that is one numeric literal without the imaginary suffix.
NumericLiteral(s) == WholeLiteral(s) /\ At(s, Len(s) - 1) \notin {"j", "J"}

\* The base a numeric literal shows after its sign.
LiteralBase(s) == BaseOf(Slice(s, SignLength(s), Len(s)))

\* The value of the base-10 literal s with its exponent marker at pos (-1: none).
DecimalLiteralValue(s, pos) ==
    IF pos = -1 THEN Normal(ParseDecimal(s))
    ELSE Normal(Dec(ParseDecimal(Slice(s, 0, pos)).sign,
                    ParseDecimal(Slice(s, 0, pos)).digits,
                    ParseDecimal(Slice(s, 0, pos)).exp + ExponentValue(Slice(s, pos + 1, Len(s)))))

\* The value of a numeric literal.
LiteralValue(s) ==
    IF LiteralBase(s) = 10
    THEN [base |-> 10, value |-> DecimalLiteralValue(s, Find(Lower(s), "e"))]
    ELSE [base |-> LiteralBase(s), value |-> literal_eval(s)]

SameValue(a, b) ==
    /\ NumericLiteral(a)
    /\ NumericLiteral(b)
    /\ LiteralValue(a) = LiteralValue(b)

\* C4: incrementing at a digit of a numeric literal and then decrementing at
\* index + offset yields a literal of the value of the original one.
C4_DoubleApplication ==
    (/\ Len(calls) >= 2
     /\ calls[1].increment = 1
     /\ calls[2].increment = -1
     /\ NumericLiteral(calls[1].src)
     /\ calls[1].g.located)
        => (/\ ~calls[1].raised
            /\ ~calls[2].raised
            /\ SameValue(calls[1].src, calls[2].line))

\* C5: a call with 0 <= index < len(line) returns; it never raises.
C5_NeverRaises == \A c \in Called : c.index < Len(c.src) => ~c.raised

\* The digits right of the index in the located literal.
DigitsRight(c) == Cardinality({i \in (c.index + 1)..(c.g.end - 1) : At(c.src, i) # "_"})

\* Text t is: a '-' exactly when v is negative, the two prefix characters pre,
\* then one or more digits of the base that spell the magnitude of v.
Spells(t, v, pre, base) ==
    /\ (At(t, 0) = "-") <=> (v.sign = 1)
    /\ Slice(t, SignLength(t), SignLength(t) + 2) = pre
    /\ Len(t) > SignLength(t) + 2
    /\ \A i \in (SignLength(t) + 2)..(Len(t) - 1) : At(t, i) \in digits_by_base(base)
    /\ StripZeros(DigitValues(Slice(t, SignLength(t) + 2, Len(t)))) = v.digits

\* C6: the new text of a binary, octal or hexadecimal literal is an optional
\* '-', the two prefix characters of the original and the digits of the new
\* value in the base and letter case of the original, also across zero.
C6_BaseFidelity ==
    \A c \in Called :
        (c.g.located /\ c.g.base \in {2, 8, 16}) =>
            /\ ~c.raised
            /\ Spells(RemoveUnderscores(NewLiteral(c)),
                      Bumped(literal_eval(OldLiteral(c)), c.g.base, DigitsRight(c), c.increment),
                      Slice(OldLiteral(c), SignLength(OldLiteral(c)), SignLength(OldLiteral(c)) + 2),
                      c.g.base)

\* C7: the new text of a base-10 significand or exponent is in plain decimal
\* notation, without an 'E', with as many digits after the point as the
\* original.
C7_PlainNotation ==
    \A c \in Called :
        (c.g.located /\ c.g.base = 10 /\ ~c.raised) =>
            /\ PlainNumber(Unsigned(RemoveUnderscores(NewLiteral(c))))
            /\ FractionDigits(RemoveUnderscores(NewLiteral(c)))
                  = FractionDigits(RemoveUnderscores(OldLiteral(c)))

\* The exact sum the call computes for the base-10 literal it located.
ExactValue(c) ==
    ExactAdd(ParseDecimal(OldLiteral(c)),
             Times(c.increment,
                   Dec(0, <<1>>, DecimalWeight(OldLiteral(c), c.g.start, c.g.end, c.index))))

\* C8: after a call on a base-10 literal of L characters the precision is at
\* least L plus a positive margin, and the sum was not rounded.
C8_PrecisionMargin ==
    \A c \in Called :
        (c.g.located /\ c.g.base = 10 /\ ~c.raised) =>
            /\ c.prec1 >= Len(OldLiteral(c)) + 1
            /\ Len(ExactValue(c).digits) <= c.prec1

\* The character at i of the line is a digit of the one valid numeric literal
\* the line is.
ValidAt(line, i) ==
    /\ NumericLiteral(line)
    /\ i >= 0 /\ i < Len(line)
    /\ ~NotLiteralDigit(line, i)

\* C10: from a line that is a valid numeric literal with a digit at the index,
\* every call returns a valid literal of the same base with a digit at the
\* cursor.
C10_WellFormed ==
    (Len(calls) >= 1 /\ ValidAt(calls[1].src, calls[1].index)) =>
        \A c \in Called :
            /\ ~c.raised
            /\ ValidAt(c.line, c.index + c.offset)
            /\ LiteralBase(c.line) = LiteralBase(calls[1].src)
====
